---- MODULE Spec2Model ----
(***************************************************************************)
(* Model of the bridge relayer of src/script.py: EventScanner.scan_blocks  *)
(* (chunked log scan with retry), BridgeRelayer.process_event (dedup by    *)
(* nonce, simulated mintTokens submission), BridgeRelayer.run (the polling *)
(* loop with the reorg safety margin and the last_processed_block          *)
(* watermark) and the process start-up of main / BridgeRelayer.__init__.   *)
(***************************************************************************)
EXTENDS Integers, Sequences, FiniteSets, TLC

\* ---------------------------------------------------------------- bounds
\* Lowest and highest head height the source node reports.
MinHead == 4
MaxHead == 9
\* Highest configured START_BLOCK.
MaxStartBlock == 1
\* Failed fetches in a row the model follows for one sub-range.
MaxRetries == 2
\* Process restarts the model follows.
MaxRestarts == 1
\* Highest to_block of a direct scan_blocks call.
MaxScanTo == 4
\* Highest max_range of a direct scan_blocks call.
MaxRange == 3

\* ------------------------------------------------------ program constants
\* self.reorg_safety_margin = 5
reorg_safety_margin == 5
\* scan_blocks(..., max_range: int = 1000); run() passes no max_range
DefaultMaxRange == 1000

\* ------------------------------------------------------------ environment
Event(bn, li, n) == [blockNumber |-> bn, logIndex |-> li, nonce |-> n]

\* The TokensLocked logs on the source ledger (final, below the margin).
\* Heights 2 carries two logs; nonce 1 occurs twice (heights 1 and 3), the
\* key-uniqueness violation process_event guards against; height 4 is empty.
LedgerEvents ==
    { Event(0, 0, 4), Event(1, 0, 1), Event(2, 0, 2), Event(2, 1, 3),
      Event(3, 0, 1), Event(5, 0, 5) }

\* What the destination would answer to the mintTokens transaction (the
\* simulated send of process_event never reads it), or "Raised": building or
\* signing the transaction raised an exception.
Outcomes == {"Accepted", "Rejected", "Unknown", "Raised"}

\* How a get_logs call can fail.
FetchFailures == {"transient", "fatal"}

\* How get_latest_block can fail in run().
PollFailures == {"ConnectionError", "Exception"}

Min(a, b) == IF a < b THEN a ELSE b

\* All orderings of a finite set, as sequences.
Perms(S) ==
    { f \in [1..Cardinality(S) -> S] : \A i, j \in 1..Cardinality(S) : f[i] = f[j] => i = j }

\* event_filter.get_logs(fromBlock, toBlock): the logs of the heights in
\* [fromBlock, toBlock].
LogsIn(fromBlock, toBlock) ==
    { e \in LedgerEvents : fromBlock <= e.blockNumber /\ e.blockNumber <= toBlock }

\* ------------------------------------------------------------------ state
VARIABLES
    pc,                    \* position: "loop", "scan", "process", "returned", "halted"
    start_block,           \* START_BLOCK handed to BridgeRelayer.__init__
    last_processed_block,  \* self.last_processed_block
    processed_nonces,      \* self.processed_nonces
    latest_block,          \* latest_block read by the current cycle
    from_block,            \* scan_blocks argument
    to_block,              \* scan_blocks argument / run's to_block
    max_range,             \* scan_blocks argument
    start,                 \* scan_blocks local cursor
    all_events,            \* scan_blocks local accumulator
    queries,               \* sub-ranges the current scan_blocks call fetched
    last_fetch,            \* the latest get_logs call of the current scan
    retries,               \* failed get_logs calls in a row
    events,                \* the list scan_blocks returned (run() sorts it in place)
    idx,                   \* position of the for loop of run() in events
    trace,                 \* the process_event calls of this process lifetime
    status,                \* how the last cycle ended
    lifetime,              \* number of restarts of the process
    halt,                  \* the nonces held when the process was last killed
    windows                \* the windows this lifetime committed, oldest first

vars == << pc, start_block, last_processed_block, processed_nonces, latest_block,
           from_block, to_block, max_range, start, all_events, queries, last_fetch,
           retries, events, idx, trace, status, lifetime, halt, windows >>

scanVars == << from_block, to_block, max_range, start, all_events, queries,
              last_fetch, retries >>
relayVars == << start_block, last_processed_block, processed_nonces, latest_block,
                events, idx, trace, status, lifetime, halt, windows >>

\* A get_logs call: its range, its result ("ok" or the failure) and the
\* number of failed calls for the same range before it.
Fetch(s, e, r, n) == [start |-> s, end |-> e, result |-> r, retried |-> n]

NoFetch == Fetch(0, -1, "none", 0)

\* Longest query log the model follows (reached only when max_range < 1,
\* where the while loop of scan_blocks goes round for ever).
MaxQueries == (MaxScanTo + 2) * 2

NoHalt == [complete |-> FALSE, keys |-> {}]

\* ------------------------------------------------------- pure operations
KeyOf(e) == << e.blockNumber, e.logIndex >>

\* Tuple comparison of the sort key (blockNumber, logIndex).
KeyLess(a, b) ==
    \/ a.blockNumber < b.blockNumber
    \/ a.blockNumber = b.blockNumber /\ a.logIndex < b.logIndex

\* Stable insertion of e into the sorted sequence s.
RECURSIVE InsertSorted(_, _)
InsertSorted(s, e) ==
    IF s = << >> THEN << e >>
    ELSE IF KeyLess(e, Head(s)) THEN << e >> \o s
    ELSE << Head(s) >> \o InsertSorted(Tail(s), e)

RECURSIVE SortFrom(_, _)
SortFrom(acc, s) ==
    IF s = << >> THEN acc ELSE SortFrom(InsertSorted(acc, Head(s)), Tail(s))

SortUnsorted(s) == s

\* events.sort(key=lambda e: (e['blockNumber'], e['logIndex']))
SortEvents(s) == SortFrom(<< >>, s)

ToBlockNoMargin(latest) == latest

\* to_block = latest_block - self.reorg_safety_margin
ToBlock(latest) == latest - reorg_safety_margin

ChunkEndOffByOne(s, mr, tb) == Min(s + mr, tb)

\* end = min(start + max_range - 1, to_block)
ChunkEnd(s, mr, tb) == Min(s + mr - 1, tb)

AlreadyProcessedNever(nonce, nonces) == FALSE

\* if nonce in self.processed_nonces
AlreadyProcessed(nonce, nonces) == nonce \in nonces

NoncesAfterDropRejected(nonces, nonce, outcome) ==
    IF outcome \in {"Raised", "Rejected"} THEN nonces ELSE nonces \cup {nonce}

\* self.processed_nonces.add(nonce) is reached unless an exception was raised
\* before it; the receipt of the (simulated) send is never inspected.
NoncesAfter(nonces, nonce, outcome) ==
    IF outcome = "Raised" THEN nonces ELSE nonces \cup {nonce}

\* ------------------------------------------------------------------ Init
\* BridgeRelayer.__init__: empty nonce set, watermark = start_block.
Init ==
    /\ pc = "loop"
    /\ start_block \in 0..MaxStartBlock
    /\ last_processed_block = start_block
    /\ processed_nonces = {}
    /\ latest_block = 0
    /\ from_block = 0
    /\ to_block = -1
    /\ max_range = DefaultMaxRange
    /\ start = 0
    /\ all_events = << >>
    /\ queries = << >>
    /\ last_fetch = NoFetch
    /\ retries = 0
    /\ events = << >>
    /\ idx = 1
    /\ trace = << >>
    /\ status = "started"
    /\ lifetime = 0
    /\ halt = NoHalt
    /\ windows = << >>

\* A direct call scan_blocks(from_block, to_block, max_range).
ScanInit ==
    /\ pc = "scan"
    /\ from_block \in 0..(MaxScanTo + 1)
    /\ to_block \in 0..MaxScanTo
    /\ max_range \in -1..MaxRange
    /\ start = from_block
    /\ all_events = << >>
    /\ queries = << >>
    /\ last_fetch = NoFetch
    /\ retries = 0
    /\ start_block = 0
    /\ last_processed_block = 0
    /\ processed_nonces = {}
    /\ latest_block = 0
    /\ events = << >>
    /\ idx = 1
    /\ trace = << >>
    /\ status = "started"
    /\ lifetime = 0
    /\ halt = NoHalt
    /\ windows = << >>

\* ------------------------------------------------------------ scan_blocks
FetchOkNoAdvance ==
    /\ pc = "scan"
    /\ start <= to_block
    /\ Len(queries) < MaxQueries
    /\ LET end == ChunkEnd(start, max_range, to_block) IN
         \E event_logs \in Perms(LogsIn(start, end)) :
            /\ all_events' = all_events \o event_logs
            /\ start' = end
            /\ queries' = Append(queries, << start, end >>)
            /\ last_fetch' = Fetch(start, end, "ok", retries)
    /\ retries' = 0
    /\ UNCHANGED << pc, from_block, to_block, max_range >>
    /\ UNCHANGED relayVars

FetchOkUnguarded ==
    /\ pc = "scan"
    /\ Len(queries) < MaxQueries
    /\ LET end == ChunkEnd(start, max_range, to_block) IN
         \E event_logs \in Perms(LogsIn(start, end)) :
            /\ all_events' = all_events \o event_logs
            /\ start' = end + 1
            /\ queries' = Append(queries, << start, end >>)
            /\ last_fetch' = Fetch(start, end, "ok", retries)
    /\ retries' = 0
    /\ UNCHANGED << pc, from_block, to_block, max_range >>
    /\ UNCHANGED relayVars

\* One pass of the while loop in which get_logs succeeds.
FetchOk ==
    /\ pc = "scan"
    /\ start <= to_block
    /\ Len(queries) < MaxQueries
    /\ LET end == ChunkEnd(start, max_range, to_block) IN
         \E event_logs \in Perms(LogsIn(start, end)) :
            /\ all_events' = all_events \o event_logs
            /\ start' = end + 1
            /\ queries' = Append(queries, << start, end >>)
            /\ last_fetch' = Fetch(start, end, "ok", retries)
    /\ retries' = 0
    /\ UNCHANGED << pc, from_block, to_block, max_range >>
    /\ UNCHANGED relayVars

FetchFailSkips ==
    /\ pc = "scan"
    /\ start <= to_block
    /\ retries < MaxRetries
    /\ \E kind \in FetchFailures :
         last_fetch' = Fetch(start, ChunkEnd(start, max_range, to_block), kind, retries)
    /\ retries' = retries + 1
    /\ start' = ChunkEnd(start, max_range, to_block) + 1
    /\ UNCHANGED << pc, from_block, to_block, max_range, all_events, queries >>
    /\ UNCHANGED relayVars

\* One pass of the while loop in which get_logs raises: `except Exception`
\* logs, sleeps 10 s and leaves start as it is, whatever the exception.
FetchFail ==
    /\ pc = "scan"
    /\ start <= to_block
    /\ retries < MaxRetries
    /\ \E kind \in FetchFailures :
         last_fetch' = Fetch(start, ChunkEnd(start, max_range, to_block), kind, retries)
    /\ retries' = retries + 1
    /\ UNCHANGED << pc, from_block, to_block, max_range, start, all_events, queries >>
    /\ UNCHANGED relayVars

\* scan_blocks returns all_events to a direct caller (from_block > to_block
\* returns at once, with nothing fetched).
ScanDone ==
    /\ pc = "scan"
    /\ start > to_block
    /\ pc' = "returned"
    /\ events' = all_events
    /\ UNCHANGED scanVars
    /\ UNCHANGED << start_block, last_processed_block, processed_nonces, latest_block,
                    idx, trace, status, lifetime, halt, windows >>

\* ---------------------------------------------------------------- run()
PollFailsResets ==
    /\ pc = "loop"
    /\ \E kind \in PollFailures : status' = kind
    /\ last_processed_block' = start_block
    /\ UNCHANGED << pc, start_block, processed_nonces, latest_block,
                    events, idx, trace, lifetime, halt, windows >>
    /\ UNCHANGED scanVars

\* get_latest_block raises: `except ConnectionError` (sleep 60) or
\* `except Exception` (sleep 30); the while True loop goes on.
PollFails ==
    /\ pc = "loop"
    /\ \E kind \in PollFailures : status' = kind
    /\ UNCHANGED << pc, start_block, last_processed_block, processed_nonces, latest_block,
                    events, idx, trace, lifetime, halt, windows >>
    /\ UNCHANGED scanVars

\* The record of one process_event call: kind is "skip" for an already
\* processed nonce, else the outcome of the submission.
Call(ev, kind) == [ev |-> ev, kind |-> kind]

PollNoNewBlocksRewinds ==
    /\ pc = "loop"
    /\ \E head \in MinHead..MaxHead :
         /\ ~(ToBlock(head) > last_processed_block)
         /\ latest_block' = head
         /\ last_processed_block' = ToBlock(head)
    /\ status' = "no_new_blocks"
    /\ UNCHANGED << pc, start_block, processed_nonces,
                    events, idx, trace, lifetime, halt, windows >>
    /\ UNCHANGED scanVars

PollNoNewBlocksScans ==
    /\ pc = "loop"
    /\ \E head \in MinHead..MaxHead :
         /\ ~(ToBlock(head) > last_processed_block)
         /\ latest_block' = head
         /\ to_block' = ToBlock(head)
    /\ from_block' = last_processed_block + 1
    /\ max_range' = DefaultMaxRange
    /\ start' = last_processed_block + 1
    /\ all_events' = << >>
    /\ queries' = << >>
    /\ last_fetch' = NoFetch
    /\ retries' = 0
    /\ events' = << >>
    /\ idx' = 1
    /\ status' = "scanning"
    /\ pc' = "scan"
    /\ UNCHANGED << start_block, last_processed_block, processed_nonces, trace,
                    lifetime, halt, windows >>

\* to_block <= last_processed_block: "No new blocks to scan", sleep.
PollNoNewBlocks ==
    /\ pc = "loop"
    /\ \E head \in MinHead..MaxHead :
         /\ ~(ToBlock(head) > last_processed_block)
         /\ latest_block' = head
    /\ status' = "no_new_blocks"
    /\ UNCHANGED << pc, start_block, last_processed_block, processed_nonces,
                    events, idx, trace, lifetime, halt, windows >>
    /\ UNCHANGED scanVars

PollScanFromWatermark ==
    /\ pc = "loop"
    /\ \E head \in MinHead..MaxHead :
         /\ ToBlock(head) > last_processed_block
         /\ latest_block' = head
         /\ to_block' = ToBlock(head)
    /\ from_block' = last_processed_block
    /\ max_range' = DefaultMaxRange
    /\ start' = last_processed_block
    /\ all_events' = << >>
    /\ queries' = << >>
    /\ last_fetch' = NoFetch
    /\ retries' = 0
    /\ events' = << >>
    /\ idx' = 1
    /\ status' = "scanning"
    /\ pc' = "scan"
    /\ UNCHANGED << start_block, last_processed_block, processed_nonces, trace,
                    lifetime, halt, windows >>

\* to_block > last_processed_block: scan_blocks(last_processed_block + 1,
\* to_block) is entered with the default max_range.
PollScan ==
    /\ pc = "loop"
    /\ \E head \in MinHead..MaxHead :
         /\ ToBlock(head) > last_processed_block
         /\ latest_block' = head
         /\ to_block' = ToBlock(head)
    /\ from_block' = last_processed_block + 1
    /\ max_range' = DefaultMaxRange
    /\ start' = last_processed_block + 1
    /\ all_events' = << >>
    /\ queries' = << >>
    /\ last_fetch' = NoFetch
    /\ retries' = 0
    /\ events' = << >>
    /\ idx' = 1
    /\ status' = "scanning"
    /\ pc' = "scan"
    /\ UNCHANGED << start_block, last_processed_block, processed_nonces, trace,
                    lifetime, halt, windows >>

\* scan_blocks returns to run(), which sorts the list and enters the for loop
\* (an empty list skips the loop). The bookkeeping of the get_logs calls ends
\* with the call.
RunScanReturn ==
    /\ pc = "scan"
    /\ start > to_block
    /\ events' = SortEvents(all_events)
    /\ idx' = 1
    /\ pc' = "process"
    /\ last_fetch' = NoFetch
    /\ retries' = 0
    /\ UNCHANGED << from_block, to_block, max_range, start, all_events, queries >>
    /\ UNCHANGED << start_block, last_processed_block, processed_nonces, latest_block,
                    trace, status, lifetime, halt, windows >>

\* One process_event call of the for loop.
ProcessEvent ==
    /\ pc = "process"
    /\ idx <= Len(events)
    /\ LET ev == events[idx] IN
         IF AlreadyProcessed(ev.nonce, processed_nonces)
         THEN /\ trace' = Append(trace, Call(ev, "skip"))
              /\ UNCHANGED processed_nonces
         ELSE \E outcome \in Outcomes :
                /\ trace' = Append(trace, Call(ev, outcome))
                /\ processed_nonces' = NoncesAfter(processed_nonces, ev.nonce, outcome)
    /\ idx' = idx + 1
    /\ UNCHANGED << pc, start_block, last_processed_block, latest_block, events,
                    status, lifetime, halt, windows >>
    /\ UNCHANGED scanVars

AdvanceWatermarkToHead ==
    /\ pc = "process"
    /\ idx > Len(events)
    /\ last_processed_block' = latest_block
    /\ status' = "advanced"
    /\ pc' = "loop"
    /\ events' = << >>
    /\ idx' = 1
    /\ start' = 0
    /\ all_events' = << >>
    /\ queries' = << >>
    /\ windows' = Append(windows, << from_block, to_block >>)
    /\ UNCHANGED << start_block, processed_nonces, latest_block, trace, lifetime, halt,
                    from_block, to_block, max_range, last_fetch, retries >>

\* self.last_processed_block = to_block, after the for loop; then sleep. The
\* lists of the cycle are dropped: the next cycle builds its own.
AdvanceWatermark ==
    /\ pc = "process"
    /\ idx > Len(events)
    /\ last_processed_block' = to_block
    /\ status' = "advanced"
    /\ pc' = "loop"
    /\ events' = << >>
    /\ idx' = 1
    /\ start' = 0
    /\ all_events' = << >>
    /\ queries' = << >>
    /\ windows' = Append(windows, << from_block, to_block >>)
    /\ UNCHANGED << start_block, processed_nonces, latest_block, trace, lifetime, halt,
                    from_block, to_block, max_range, last_fetch, retries >>

\* -------------------------------------------------------- process restart
\* The process is killed anywhere and main() runs again: __init__ builds
\* processed_nonces = set() and last_processed_block = start_block anew;
\* nothing is read back from disk.
Restart ==
    /\ pc \in {"loop", "scan", "process"}
    /\ lifetime < MaxRestarts
    /\ lifetime' = lifetime + 1
    /\ halt' = IF pc = "process" /\ idx > Len(events) /\ events # << >>
                THEN [complete |-> TRUE, keys |-> processed_nonces]
                ELSE NoHalt
    /\ processed_nonces' = {}
    /\ last_processed_block' = start_block
    /\ pc' = "loop"
    /\ status' = "started"
    /\ events' = << >>
    /\ idx' = 1
    /\ from_block' = 0
    /\ to_block' = -1
    /\ max_range' = DefaultMaxRange
    /\ start' = 0
    /\ all_events' = << >>
    /\ queries' = << >>
    /\ last_fetch' = NoFetch
    /\ retries' = 0
    /\ latest_block' = 0
    /\ trace' = << >>
    /\ windows' = << >>
    /\ UNCHANGED start_block

\* ------------------------------------------------------- shutdown signal
\* run() reads no shutdown flag. A shutdown signal (SIGINT) is raised as
\* KeyboardInterrupt wherever the process is; neither `except Exception` of
\* run() and process_event nor main() catches it, so the process ends there.
Shutdown ==
    /\ pc \in {"loop", "scan", "process"}
    /\ pc' = "halted"
    /\ UNCHANGED relayVars
    /\ UNCHANGED scanVars

\* ---------------------------------------------------------- specifications
Next ==
    \/ PollFails
    \/ PollNoNewBlocks
    \/ PollScan
    \/ FetchOk
    \/ FetchFail
    \/ RunScanReturn
    \/ ProcessEvent
    \/ AdvanceWatermark

\* The relay loop within one process lifetime.
Spec == Init /\ [][Next]_vars

CrashNext == Next \/ Restart

\* The relay loop with the process killed and started again.
CrashSpec == Init /\ [][CrashNext]_vars

ShutdownNext == Next \/ Shutdown

\* The relay loop with a shutdown signal arriving at any moment.
ShutdownSpec == Init /\ [][ShutdownNext]_vars

ScanNext ==
    \/ FetchOk
    \/ FetchFail
    \/ ScanDone

\* A direct scan_blocks call.
ScanSpec == ScanInit /\ [][ScanNext]_vars

\* A direct scan_blocks call in which get_logs does not fail for ever and the
\* interpreter keeps running the function.
ScanFairSpec == ScanSpec /\ WF_vars(FetchOk) /\ WF_vars(ScanDone)

\* ------------------------------------------------------------- properties
Last(q) == q[Len(q)]

\* The events of seq, as a set.
Range(q) == { q[i] : i \in 1..Len(q) }

\* A step that makes one process_event call.
CallStep == Len(trace') = Len(trace) + 1

\* C1: every source event at a height the watermark has passed (above
\* start_block, up to last_processed_block) has its nonce recorded in
\* processed_nonces, the only record of a terminal outcome the relayer keeps:
\* the watermark is not advanced over an event whose processing failed.
C1_WatermarkNeverPassesUnrecorded ==
    \A e \in LedgerEvents :
        (start_block < e.blockNumber /\ e.blockNumber <= last_processed_block)
            => e.nonce \in processed_nonces

\* C2: right after a submission whose outcome is Unknown, the event's nonce
\* is not in processed_nonces, the for loop of the cycle has been left (no
\* later event of the window is submitted), and the watermark is still below
\* the event's height, so that the next cycle scans it again.
C2_UnknownAbortsCycle ==
    (trace # << >> /\ Last(trace).kind = "Unknown")
        => /\ Last(trace).ev.nonce \notin processed_nonces
           /\ pc = "loop"
           /\ last_processed_block < Last(trace).ev.blockNumber

\* C3: in a cycle that read the head latest_block, no height above
\* latest_block - reorg_safety_margin is in the window handed to scan_blocks,
\* in a sub-range it queried, or carried by an event it returned or that the
\* cycle processed.
C3_ReorgMargin ==
    pc \in {"scan", "process"} =>
        LET safe == latest_block - reorg_safety_margin IN
          /\ to_block <= safe
          /\ \A i \in 1..Len(queries) : queries[i][2] <= safe
          /\ last_fetch.end <= safe
          /\ \A e \in Range(all_events) \cup Range(events) : e.blockNumber <= safe

\* C3 witness: a cycle has processed an event that lies exactly at the
\* margin, latest_block - reorg_safety_margin.
C3_Witness ==
    /\ pc = "process"
    /\ idx > 1
    /\ events[idx - 1].blockNumber = latest_block - reorg_safety_margin
    /\ trace # << >>
    /\ Last(trace).ev = events[idx - 1]

\* C4: a process_event call for an event whose nonce is already in
\* processed_nonces makes no submission (it is a skip) and leaves
\* processed_nonces and last_processed_block as they were.
C4_NoSubmitForProcessedNonce ==
    [][ (CallStep /\ Last(trace').ev.nonce \in processed_nonces)
          => /\ Last(trace').kind = "skip"
             /\ processed_nonces' = processed_nonces
             /\ last_processed_block' = last_processed_block ]_vars

\* C4 witness: the second of two events of one window that carry the same
\* nonce has been skipped.
C4_Witness ==
    /\ pc = "process"
    /\ idx > 2
    /\ trace # << >>
    /\ Last(trace).kind = "skip"
    /\ Last(trace).ev = events[idx - 1]
    /\ \E k \in 1..(idx - 2) : events[k].nonce = events[idx - 1].nonce

\* C5: when the process was killed after the for loop had processed every
\* event of a window and before last_processed_block was set, the restarted
\* process makes no submission for a nonce that was in processed_nonces at
\* the kill (trace holds the calls made since the restart).
C5_NoResubmitAfterRestart ==
    halt.complete =>
        \A i \in 1..Len(trace) :
            trace[i].ev.nonce \in halt.keys => trace[i].kind = "skip"

\* C6: no step of the relay loop lowers last_processed_block.
C6_WatermarkMonotonic ==
    [][ last_processed_block' >= last_processed_block ]_vars

\* C6 witness: after the watermark had advanced, a cycle read a head so low
\* that to_block is below the watermark; and the watermark is where it was.
C6_Witness ==
    /\ status = "no_new_blocks"
    /\ ToBlock(latest_block) < last_processed_block
    /\ last_processed_block > start_block

\* C7: the process_event calls of a process lifetime are strictly ascending
\* in (blockNumber, logIndex), within a cycle and from one cycle to the next,
\* and the list the for loop iterates is strictly ascending in that order.
C7_AscendingOrder ==
    /\ \A i, j \in 1..Len(trace) : i < j => KeyLess(trace[i].ev, trace[j].ev)
    /\ pc = "process" =>
          \A i, j \in 1..Len(events) : i < j => KeyLess(events[i], events[j])

\* C7 witness: scan_blocks returned the events in another order than the
\* sorted one, two of them have been processed, and an earlier cycle had
\* processed events too.
C7_Witness ==
    /\ pc = "process"
    /\ all_events # events
    /\ idx > 2
    /\ Len(trace) > idx - 1

C9_RetrySameRangeAndComplete ==
    /\ [][ (last_fetch.result \in FetchFailures /\ last_fetch' # last_fetch)
             => /\ last_fetch'.start = last_fetch.start
                /\ last_fetch'.end = last_fetch.end ]_vars
    /\ [][ (last_fetch' # last_fetch /\ last_fetch'.result \in FetchFailures)
             => /\ start' = start
                /\ all_events' = all_events ]_vars
    /\ [](pc = "returned" =>
             /\ Range(events) = LogsIn(from_block, to_block)
             /\ Len(events) = Cardinality(LogsIn(from_block, to_block)))

\* C9 witness: a scan over several sub-ranges has returned events, and its
\* last sub-range was fetched again after a failed call.
C9_Witness ==
    /\ pc = "returned"
    /\ Len(queries) > 1
    /\ last_fetch.result = "ok"
    /\ last_fetch.retried > 0
    /\ events # << >>

\* C10: after a get_logs call failed with a fatal error, scan_blocks is no
\* longer in its loop: the failure has gone to the caller.
C10_FatalPropagates ==
    last_fetch.result = "fatal" => pc # "scan"

\* C11: once a cycle has ended in a fatal (non-connection) error the relayer
\* is faulted for good: from then on it enters no scan (no cycle gets as far
\* as a window) and processes no event.
C11_FatalIsTerminal ==
    [][ status = "Exception"
          => /\ pc' = "loop"
             /\ trace' = trace
             /\ queries' = queries ]_vars

\* C12: when scan_blocks(from_block, to_block, max_range) with
\* from_block <= to_block and max_range >= 1 has returned, the sub-ranges it
\* fetched are, in query order: first starting at from_block, each of 1 to
\* max_range heights, each starting right after the one before, and the last
\* ending at to_block; while it runs, they cover [from_block, start - 1].
C12_SubRangesTile ==
    (from_block <= to_block /\ max_range >= 1) =>
        /\ \A i \in 1..Len(queries) :
              /\ queries[i][1] <= queries[i][2]
              /\ queries[i][2] - queries[i][1] + 1 <= max_range
              /\ queries[i][1] = (IF i = 1 THEN from_block ELSE queries[i - 1][2] + 1)
        /\ start = (IF queries = << >> THEN from_block ELSE Last(queries)[2] + 1)
        /\ pc = "returned" => (queries # << >> /\ Last(queries)[2] = to_block)

\* C12 witness: a scan has returned after several sub-ranges of more than
\* one height, the last of them cut short by to_block.
C12_Witness ==
    /\ pc = "returned"
    /\ max_range >= 2
    /\ Len(queries) >= 2
    /\ queries[1][2] - queries[1][1] + 1 = max_range
    /\ Last(queries)[2] - Last(queries)[1] + 1 < max_range

\* A step of a cycle that has a window: from the poll that computes it to
\* the step that commits it.
InWindow == pc \in {"scan", "process"}

\* C13: a cycle that scans does so on exactly the window
\* [last_processed_block + 1, latest_block - reorg_safety_margin], which is
\* not empty of heights; when no event lies in that window, no step of the
\* cycle makes a process_event call or changes processed_nonces, and the
\* cycle ends with last_processed_block = latest_block - reorg_safety_margin.
C13_WindowAndEmptyCycle ==
    /\ [](InWindow =>
            /\ from_block = last_processed_block + 1
            /\ to_block = latest_block - reorg_safety_margin
            /\ from_block <= to_block)
    /\ [][ ((InWindow \/ InWindow') /\ LogsIn(from_block', to_block') = {})
             => /\ trace' = trace
                /\ processed_nonces' = processed_nonces
                /\ (InWindow /\ pc' = "loop")
                      => last_processed_block' = latest_block - reorg_safety_margin ]_vars

\* C13 witness: a cycle over a window without events has ended and the
\* watermark stands at latest_block - reorg_safety_margin.
C13_Witness ==
    /\ pc = "loop"
    /\ status = "advanced"
    /\ from_block <= to_block
    /\ LogsIn(from_block, to_block) = {}
    /\ last_processed_block = latest_block - reorg_safety_margin
    /\ last_processed_block = to_block

\* C14: a poll that reads a head with head - reorg_safety_margin <=
\* last_processed_block enters no scan, makes no get_logs and no
\* process_event call, and leaves last_processed_block and processed_nonces
\* as they were.
C14_NoNewBlocksChangesNothing ==
    [][ (pc = "loop" /\ latest_block' - reorg_safety_margin <= last_processed_block)
          => /\ pc' = "loop"
             /\ last_processed_block' = last_processed_block
             /\ processed_nonces' = processed_nonces
             /\ trace' = trace
             /\ queries' = queries
             /\ last_fetch' = last_fetch ]_vars

\* C14 witness: after events were processed, a cycle read a head that puts
\* to_block exactly at the watermark and ended with nothing to scan.
C14_Witness ==
    /\ pc = "loop"
    /\ status = "no_new_blocks"
    /\ latest_block - reorg_safety_margin = last_processed_block
    /\ processed_nonces # {}

\* C15: a cycle that ends in a ConnectionError leaves last_processed_block
\* (and processed_nonces) as they were and the relayer at the top of its
\* loop; the next cycle that scans starts its window at that same
\* last_processed_block + 1.
C15_TransientKeepsWatermark ==
    /\ [][ status' = "ConnectionError"
             => /\ last_processed_block' = last_processed_block
                /\ processed_nonces' = processed_nonces
                /\ pc' = "loop" ]_vars
    /\ [][ (status = "ConnectionError" /\ pc' = "scan")
             => /\ from_block' = last_processed_block + 1
                /\ last_processed_block' = last_processed_block ]_vars

\* C15 witness: a cycle has ended in a ConnectionError after the watermark
\* had advanced over processed events.
C15_Witness ==
    /\ pc = "loop"
    /\ status = "ConnectionError"
    /\ last_processed_block > start_block
    /\ trace # << >>

\* C16: a scan_blocks call with from_block > to_block makes no get_logs call,
\* good or failed, and returns the empty list.
C16_EmptyWindowReturnsEmpty ==
    from_block > to_block =>
        /\ pc \in {"scan", "returned"}
        /\ queries = << >>
        /\ last_fetch = NoFetch
        /\ all_events = << >>
        /\ pc = "returned" => events = << >>

\* C16 witness: a call with from_block > to_block has returned.
C16_Witness ==
    /\ pc = "returned"
    /\ from_block > to_block

\* C17: the relayer halts on a shutdown signal only between cycles: when it
\* has halted, it is not inside the for loop of a window with some events
\* processed and others not.
C17_HaltsBetweenCycles ==
    pc = "halted" => ~(1 < idx /\ idx <= Len(events))

\* C18: the first window the relayer scans after start-up (the watermark is
\* still start_block) begins at start_block.
C18_FirstWindowFromStartBlock ==
    (pc \in {"scan", "process"} /\ last_processed_block = start_block)
        => from_block = start_block

\* C19: the windows committed in a process lifetime tile the heights: the
\* first starts at start_block + 1, each later one right after the one
\* before, none is empty, the last ends at last_processed_block, and so every
\* height h with start_block < h <= last_processed_block lies in exactly one
\* committed window.
C19_CommittedWindowsTile ==
    /\ \A i \in 1..Len(windows) :
          /\ windows[i][1] <= windows[i][2]
          /\ windows[i][1] = (IF i = 1 THEN start_block ELSE windows[i - 1][2]) + 1
    /\ last_processed_block = (IF windows = << >> THEN start_block ELSE Last(windows)[2])
    /\ \A h \in (start_block + 1)..last_processed_block :
          Cardinality({ i \in 1..Len(windows) :
                          windows[i][1] <= h /\ h <= windows[i][2] }) = 1

\* C19 witness: three windows were committed, one of them of several heights.
C19_Witness ==
    /\ Len(windows) >= 3
    /\ \E i \in 1..Len(windows) : windows[i][1] < windows[i][2]

\* C20: a scan_blocks call with from_block <= to_block and max_range >= 1
\* whose fetches do not fail for ever returns, and each successful fetch
\* strictly increases start; with from_block <= to_block and max_range <= 0
\* no fetch increases start and the call never returns.
C20_ScanTerminates ==
    /\ (from_block <= to_block /\ max_range >= 1) ~> (pc = "returned")
    /\ [][ (max_range >= 1 /\ Len(queries') > Len(queries)) => start' > start ]_vars
    /\ [][ max_range <= 0 => start' <= start ]_vars
    /\ []((from_block <= to_block /\ max_range <= 0) => pc # "returned")

\* C20 witness: a scan of several heights with max_range = 1 has returned
\* after one fetch per height.
C20_Witness ==
    /\ pc = "returned"
    /\ max_range = 1
    /\ from_block < to_block
    /\ Len(queries) = to_block - from_block + 1

====
